---- MODULE Spec2Model ----
(***************************************************************************)
(* Client lifecycle and configuration synchronisation of the oxc VS Code   *)
(* extension: the top-level command layer (client/extension.ts) and the    *)
(* per-backend orchestrator (the formatter module, and the linter module   *)
(* of the same shape).  Tasks are async functions on one event loop: a     *)
(* task runs from one await to the next as one step; continuations of      *)
(* settled promises (microtasks) run before the next host event.           *)
(***************************************************************************)
EXTENDS Naturals, Sequences, FiniteSets

\* ------------------------------------------------------------------ bounds
\* host events (commands, configuration changes, server requests) per behaviour
MaxEvents == 2
\* distinct versions of the language-server configuration snapshot
MaxCfgVersion == 1

\* --------------------------------------------------------------- constants
Linter == "linter"
Formatter == "formatter"
\* fan-out order of extension.ts: linter first, formatter second
Backends == {Linter, Formatter}

NoPath == "undefined"
\* the file system seen by fsPromises.access: the paths that exist
Accessible == {"/good", "/dev"}
CfgPaths == {NoPath, "/good", "/bad"}
EnvPaths == {NoPath, "/dev", "/bad"}

\* workspace folders, as paths
Folders == {<<"w1">>}

TaskIds == {"act", "deact", "restart", "toggle", "cfg"}

VARIABLES
  skip,        \* process.env.SKIP_LINTER_TEST / SKIP_FORMATTER_TEST = 'true'
  envPath,     \* process.env.SERVER_PATH_DEV
  enable,      \* configService.vsCodeConfig.enable
  binPath,     \* the user-configured server binary path, per backend
  lsConfig,    \* configService.languageServerConfig (a snapshot version)
  handler,     \* configService.onConfigChange: which function is installed
  client,      \* the module variable `client`, per backend: TRUE = a handle
  obj,         \* the LanguageClient object constructed for the backend
  procs,       \* live server subprocesses, per backend
  task,        \* the async tasks: position, backend at hand, awaited promise
  event,       \* the ConfigurationChangeEvent the cfg task is handling
  resolution,  \* findBinary: its input, its accesses, its result, per backend
  launch,      \* the last subprocess launch, per backend
  push,        \* workspace/didChangeConfiguration notifications, per backend
  status,      \* the status bar item, per backend
  ui,          \* the user-visible message of the last restartClient, per backend
  folders,     \* the workspace folders that have a WorkspaceConfig
  pull,        \* the last workspace/configuration request and its response
  events,      \* host events so far
  repeat,      \* the backends for which the toggleClient under way repeats the
               \* flag of the toggleClient before it
  shown,       \* the last window/showMessage notification and where it went,
               \* per backend
  overlap      \* the backends whose restartClient or toggleClient was called
               \* while their deactivate awaited client.stop()

vars == <<skip, envPath, enable, binPath, lsConfig, handler, client, obj, procs,
          task, event, resolution, launch, push, status, ui, folders, pull, events,
          repeat, shown, overlap>>

\* ------------------------------------------------- LanguageClient (library)
\* ClientState of vscode-languageclient
ClientStates == {"Initial", "Starting", "StartFailed", "Running", "Stopping", "Stopped"}

NoObj == [state |-> "None", path |-> NoPath, initOpts |-> 0, hasProc |-> FALSE,
          fresh |-> FALSE, stopped |-> FALSE, starter |-> "none"]

\* new LanguageClient(name, serverOptions, clientOptions)
NewLanguageClient(path, opts) ==
  [state |-> "Initial", path |-> path, initOpts |-> opts, hasProc |-> FALSE,
   fresh |-> TRUE, stopped |-> FALSE, starter |-> "none"]

isRunning(o) == o.state = "Running"

\* client.start(), up to its first await: the promise it returns is pending
\* ("wait"), already resolved ("ok") or rejected ("err")
StartResult(o) ==
  CASE o.state = "Stopping" -> "err"
    [] o.state = "StartFailed" -> "err"
    [] o.state = "Running" -> "ok"
    [] OTHER -> "wait"

\* (starter: the task whose call began the launch)
StartCall(o, t) ==
  IF o.state \in {"Initial", "Stopped"}
  THEN [o EXCEPT !.state = "Starting", !.starter = t] ELSE o

\* client.stop(), up to its first await
StopResult(o) ==
  CASE o.state \in {"Stopped", "Initial"} -> "ok"
    [] o.state \in {"Stopping", "Running"} -> "wait"
    [] OTHER -> "err"

StopCall(o) ==
  IF o.state = "Running" THEN [o EXCEPT !.state = "Stopping"] ELSE o

\* ------------------------------------------------------------------- tasks
Idle == [pc |-> "idle", b |-> Linter, wait |-> "none", res |-> "none"]

Runnable(t) == task[t].pc \notin {"idle", "done"} /\ task[t].wait = "none"

\* the microtask queue is empty: the event loop takes the next host event
Quiet == \A t \in TaskIds : ~Runnable(t)

\* a promise of backend b settles with r: every task awaiting it continues
Wake(tk, b, kind, r) ==
  [t \in TaskIds |->
     IF tk[t].wait = kind /\ tk[t].b = b
     THEN [tk[t] EXCEPT !.wait = "none", !.res = r]
     ELSE tk[t]]

\* task t awaits a promise of kind `kind` whose state at the call is r
Await(t, pc, kind, r) ==
  [task[t] EXCEPT !.pc = pc,
                  !.wait = IF r = "wait" THEN kind ELSE "none",
                  !.res = IF r = "wait" THEN "none" ELSE r]

\* the per-backend call of task t is over: on to the formatter, or the end
Advance(t, end) ==
  IF task[t].b = Linter
  THEN [task[t] EXCEPT !.pc = "call", !.b = Formatter, !.wait = "none", !.res = "none"]
  ELSE [task[t] EXCEPT !.pc = end, !.wait = "none", !.res = "ok"]

\* the task's promise rejects
Fail(t, end) == [task[t] EXCEPT !.pc = end, !.wait = "none", !.res = "err"]

\* --------------------------------------------------------- binary resolution
\* findBinary returning the configured path although the access failed
findBinary_keepsInvalid(bin, env) ==
  IF bin # NoPath
  THEN [bin |-> bin, accessed |-> <<bin>>, path |-> bin, from |-> "config"]
  ELSE [bin |-> bin, accessed |-> <<>>, path |-> env, from |-> "env"]

\* findBinary: the accesses made, the path returned, and the return
\* statement it comes from
findBinary(bin, env) ==
  IF bin # NoPath
  THEN IF bin \in Accessible
       THEN [bin |-> bin, accessed |-> <<bin>>, path |-> bin, from |-> "config"]
       ELSE [bin |-> bin, accessed |-> <<bin>>, path |-> env, from |-> "env"]
  ELSE [bin |-> bin, accessed |-> <<>>, path |-> env, from |-> "env"]

NoResolution == [bin |-> NoPath, accessed |-> <<>>, path |-> NoPath, from |-> "none", n |-> 0]
NoLaunch == [n |-> 0, path |-> NoPath, opts |-> 0, afterStop |-> FALSE, fresh |-> FALSE,
             by |-> "none"]
NoPush == [n |-> 0, state |-> "None", handle |-> FALSE, settings |-> 0]
NoEvent == [kind |-> "none", handler |-> "none",
            running |-> [b \in Backends |-> FALSE], sent |-> [b \in Backends |-> 0]]
NoPull == [items |-> <<>>, response |-> <<>>, folders |-> {}, lsConfig |-> 0]
NoMessage == [type |-> 0, log |-> "none", alert |-> "none"]

Init ==
  /\ skip \in [Backends -> BOOLEAN]
  /\ envPath \in EnvPaths
  /\ enable \in BOOLEAN
  /\ binPath \in {f \in [Backends -> CfgPaths] : \A b \in Backends : skip[b] => f[b] = NoPath}
  /\ lsConfig = 0
  /\ handler = "none"
  /\ client = [b \in Backends |-> FALSE]
  /\ obj = [b \in Backends |-> NoObj]
  /\ procs = [b \in Backends |-> 0]
  /\ task = [t \in TaskIds |-> Idle]
  /\ event = NoEvent
  /\ resolution = [b \in Backends |-> NoResolution]
  /\ launch = [b \in Backends |-> NoLaunch]
  /\ push = [b \in Backends |-> NoPush]
  /\ status = [b \in Backends |-> "none"]
  /\ ui = [b \in Backends |-> "none"]
  /\ folders = {}
  /\ pull = NoPull
  /\ events = 0
  /\ repeat = {}
  /\ shown = [b \in Backends |-> NoMessage]
  /\ overlap = {}


\* ------------------------------------------------- library I/O completions
\* the subprocess of backend b is launched and initialised (ok), or the
\* connection could not be created (~ok): client.start()'s promise settles
StartDone(b, ok) ==
  /\ Quiet
  /\ obj[b].state = "Starting"
  /\ IF ok
     THEN /\ obj' = [obj EXCEPT ![b].state = "Running", ![b].hasProc = TRUE]
          /\ procs' = [procs EXCEPT ![b] = @ + 1]
          /\ launch' = [launch EXCEPT ![b] =
                          [n |-> 1,
                           path |-> obj[b].path, opts |-> obj[b].initOpts,
                           afterStop |-> obj[b].stopped, fresh |-> obj[b].fresh,
                           by |-> obj[b].starter]]
     ELSE /\ obj' = [obj EXCEPT ![b].state = "StartFailed"]
          /\ UNCHANGED <<procs, launch>>
  /\ task' = Wake(task, b, "start", IF ok THEN "ok" ELSE "err")
  /\ UNCHANGED <<shown, overlap, skip, envPath, enable, binPath, lsConfig, handler, client, event,
                 resolution, push, status, ui, events, folders, pull, repeat>>

\* the server has shut down (ok) or did not answer in time (~ok); either way
\* the client ends Stopped and its subprocess is gone
StopDone(b, ok) ==
  /\ Quiet
  /\ obj[b].state = "Stopping"
  /\ obj' = [obj EXCEPT ![b].state = "Stopped", ![b].hasProc = FALSE,
                        ![b].stopped = TRUE, ![b].fresh = FALSE]
  /\ procs' = [procs EXCEPT ![b] = IF obj[b].hasProc THEN @ - 1 ELSE @]
  /\ task' = Wake(task, b, "stop", IF ok THEN "ok" ELSE "err")
  /\ UNCHANGED <<shown, overlap, skip, envPath, enable, binPath, lsConfig, handler, client, event,
                 resolution, launch, push, status, ui, events, folders, pull, repeat>>

\* deactivate() of backend b is suspended at its await of client.stop()
DeactivateSuspended(b) == task["deact"].pc = "stopped" /\ task["deact"].b = b

\* restartClient or toggleClient of backend b is called, behind its kill-switch test
Called(b) == IF ~skip[b] /\ DeactivateSuspended(b) THEN overlap \cup {b} ELSE overlap

\* the host delivers commands and events to an extension that is activated
\* and whose deactivation has not completed
Active == handler # "none" /\ task["deact"].pc # "done"

\* a task may take its next step: it is a continuation in the microtask queue,
\* or its I/O has completed and the microtask queue is empty
Ready(t) == Runnable(t) \/ (task[t].wait = "io" /\ Quiet)

\* ---------------------------------------------------------------- activate
\* extension.ts activate, up to the first per-backend activation
ExtActivate ==
  /\ task["act"].pc = "idle"
  /\ handler' = "fanout"
  /\ task' = [task EXCEPT !["act"] = [Idle EXCEPT !.pc = "call"]]
  /\ UNCHANGED <<shown, overlap, skip, envPath, enable, binPath, lsConfig, client, obj, procs, event,
                 resolution, launch, push, status, ui, events, folders, pull, repeat>>

\* extension.ts: the kill-switch test, and activate(...) up to the await of
\* findBinary (the configured path is read at the call)
activate(b) ==
  /\ task["act"].pc = "call" /\ task["act"].b = b /\ Ready("act")
  /\ IF skip[b]
     THEN /\ task' = [task EXCEPT !["act"] = Advance("act", "done")]
          /\ UNCHANGED resolution
     ELSE /\ resolution' = [resolution EXCEPT ![b].bin = binPath[b]]
          /\ task' = [task EXCEPT !["act"] = [@ EXCEPT !.pc = "resolve", !.wait = "io"]]
  /\ UNCHANGED <<shown, overlap, skip, envPath, enable, binPath, lsConfig, handler, client, obj, procs,
                 event, launch, push, status, ui, events, folders, pull, repeat>>

\* activate with the server options built from the configured path instead of
\* the path findBinary returned
activate_resolved_configuredPath(b) ==
  /\ task["act"].pc = "resolve" /\ task["act"].b = b /\ Ready("act")
  /\ LET r == findBinary(resolution[b].bin, envPath)
         c == NewLanguageClient(r.bin, lsConfig)
     IN /\ resolution' = [resolution EXCEPT ![b] =
                            [bin |-> r.bin, accessed |-> r.accessed, path |-> r.path,
                             from |-> r.from, n |-> @.n + 1]]
        /\ IF r.path = NoPath
           THEN /\ task' = [task EXCEPT !["act"] = Advance("act", "done")]
                /\ UNCHANGED <<client, obj, handler>>
           ELSE /\ client' = [client EXCEPT ![b] = TRUE]
                /\ handler' = b
                /\ obj' = [obj EXCEPT ![b] = IF enable THEN StartCall(c, "act") ELSE c]
                /\ task' = [task EXCEPT !["act"] =
                              IF enable THEN Await("act", "started", "start", "wait")
                              ELSE Advance("act", "done")]
  /\ UNCHANGED <<shown, overlap, skip, envPath, enable, binPath, lsConfig, procs, event, launch, push,
                 status, ui, events, folders, pull, repeat>>

\* activate throwing when no binary is found, instead of returning
activate_resolved_throws(b) ==
  /\ task["act"].pc = "resolve" /\ task["act"].b = b /\ Ready("act")
  /\ LET r == findBinary(resolution[b].bin, envPath)
         c == NewLanguageClient(r.path, lsConfig)
     IN /\ resolution' = [resolution EXCEPT ![b] =
                            [bin |-> r.bin, accessed |-> r.accessed, path |-> r.path,
                             from |-> r.from, n |-> @.n + 1]]
        /\ IF r.path = NoPath
           THEN /\ task' = [task EXCEPT !["act"] = Fail("act", "done")]
                /\ UNCHANGED <<client, obj, handler>>
           ELSE /\ client' = [client EXCEPT ![b] = TRUE]
                /\ handler' = b
                /\ obj' = [obj EXCEPT ![b] = IF enable THEN StartCall(c, "act") ELSE c]
                /\ task' = [task EXCEPT !["act"] =
                              IF enable THEN Await("act", "started", "start", "wait")
                              ELSE Advance("act", "done")]
  /\ UNCHANGED <<shown, overlap, skip, envPath, enable, binPath, lsConfig, procs, event, launch, push,
                 status, ui, events, folders, pull, repeat>>

\* activate starting the client whether or not the backend is enabled
activate_resolved_alwaysStarts(b) ==
  /\ task["act"].pc = "resolve" /\ task["act"].b = b /\ Ready("act")
  /\ LET r == findBinary(resolution[b].bin, envPath)
         c == NewLanguageClient(r.path, lsConfig)
     IN /\ resolution' = [resolution EXCEPT ![b] =
                            [bin |-> r.bin, accessed |-> r.accessed, path |-> r.path,
                             from |-> r.from, n |-> @.n + 1]]
        /\ IF r.path = NoPath
           THEN /\ task' = [task EXCEPT !["act"] = Advance("act", "done")]
                /\ UNCHANGED <<client, obj, handler>>
           ELSE /\ client' = [client EXCEPT ![b] = TRUE]
                /\ handler' = b
                /\ obj' = [obj EXCEPT ![b] = StartCall(c, "act")]
                /\ task' = [task EXCEPT !["act"] =
                              Await("act", "started", "start", StartResult(c))]
  /\ UNCHANGED <<shown, overlap, skip, envPath, enable, binPath, lsConfig, procs, event, launch, push,
                 status, ui, events, folders, pull, repeat>>

\* activate(...) from the result of findBinary to the await of client.start()
activate_resolved(b) ==
  /\ task["act"].pc = "resolve" /\ task["act"].b = b /\ Ready("act")
  /\ LET r == findBinary(resolution[b].bin, envPath)
         c == NewLanguageClient(r.path, lsConfig)
     IN /\ resolution' = [resolution EXCEPT ![b] =
                            [bin |-> r.bin, accessed |-> r.accessed, path |-> r.path,
                             from |-> r.from, n |-> @.n + 1]]
        /\ IF r.path = NoPath
           THEN /\ task' = [task EXCEPT !["act"] = Advance("act", "done")]
                /\ UNCHANGED <<client, obj, handler>>
           ELSE /\ client' = [client EXCEPT ![b] = TRUE]
                /\ handler' = b
                /\ IF enable
                   THEN /\ obj' = [obj EXCEPT ![b] = StartCall(c, "act")]
                        /\ task' = [task EXCEPT !["act"] =
                                      Await("act", "started", "start", StartResult(c))]
                   ELSE /\ obj' = [obj EXCEPT ![b] = c]
                        /\ task' = [task EXCEPT !["act"] = Advance("act", "done")]
  /\ UNCHANGED <<shown, overlap, skip, envPath, enable, binPath, lsConfig, procs, event, launch, push,
                 status, ui, events, folders, pull, repeat>>

\* activate(...) after the await of client.start(): a rejection leaves
\* activate, and with it extension.ts activate
activate_started(b) ==
  /\ task["act"].pc = "started" /\ task["act"].b = b /\ Ready("act")
  /\ task' = [task EXCEPT !["act"] =
                IF task["act"].res = "ok" THEN Advance("act", "done") ELSE Fail("act", "done")]
  /\ UNCHANGED <<shown, overlap, skip, envPath, enable, binPath, lsConfig, handler, client, obj, procs,
                 event, resolution, launch, push, status, ui, events, folders, pull, repeat>>

\* -------------------------------------------------------------- deactivate
\* extension.ts deactivate, called by the host once activation is over
ExtDeactivate ==
  /\ Quiet
  /\ task["act"].pc = "done"
  /\ task["deact"].pc = "idle"
  /\ task' = [task EXCEPT !["deact"] = [Idle EXCEPT !.pc = "call"]]
  /\ UNCHANGED <<shown, overlap, skip, envPath, enable, binPath, lsConfig, handler, client, obj, procs,
                 event, resolution, launch, push, status, ui, events, folders, pull, repeat>>

\* deactivate() up to the await of client.stop()
deactivate(b) ==
  /\ task["deact"].pc = "call" /\ task["deact"].b = b /\ Ready("deact")
  /\ IF skip[b] \/ ~client[b]
     THEN /\ task' = [task EXCEPT !["deact"] = Advance("deact", "done")]
          /\ UNCHANGED obj
     ELSE /\ obj' = [obj EXCEPT ![b] = StopCall(@)]
          /\ task' = [task EXCEPT !["deact"] =
                        Await("deact", "stopped", "stop", StopResult(obj[b]))]
  /\ UNCHANGED <<shown, overlap, skip, envPath, enable, binPath, lsConfig, handler, client, procs,
                 event, resolution, launch, push, status, ui, events, folders, pull, repeat>>

\* deactivate() after the await: client = undefined
deactivate_stopped(b) ==
  /\ task["deact"].pc = "stopped" /\ task["deact"].b = b /\ Ready("deact")
  /\ IF task["deact"].res = "ok"
     THEN /\ client' = [client EXCEPT ![b] = FALSE]
          /\ task' = [task EXCEPT !["deact"] = Advance("deact", "done")]
     ELSE /\ task' = [task EXCEPT !["deact"] = Fail("deact", "done")]
          /\ UNCHANGED client
  /\ UNCHANGED <<shown, overlap, skip, envPath, enable, binPath, lsConfig, handler, obj, procs,
                 event, resolution, launch, push, status, ui, events, folders, pull, repeat>>


\* ----------------------------------------------------------- restartClient
\* the RestartServer command is invoked
restartCommand ==
  /\ Quiet
  /\ Active
  /\ task["restart"].pc = "idle"
  /\ events < MaxEvents
  /\ events' = events + 1
  /\ task' = [task EXCEPT !["restart"] = [Idle EXCEPT !.pc = "call"]]
  /\ UNCHANGED <<shown, overlap, skip, envPath, enable, binPath, lsConfig, handler, client, obj, procs,
                 event, resolution, launch, push, status, ui, folders, pull, repeat>>

\* the catch clause of restartClient: client.error(...) on the module variable
restartClient_catch(b) ==
  IF client[b]
  THEN /\ ui' = [ui EXCEPT ![b] = "restartFailed"]
       /\ task' = [task EXCEPT !["restart"] = Advance("restart", "idle")]
  ELSE /\ task' = [task EXCEPT !["restart"] = Fail("restart", "idle")]
       /\ UNCHANGED ui

\* restartClient with the running case written as "make a new client and start
\* it": the client that is running is never stopped
restartClient_recreate(b) ==
  /\ task["restart"].pc = "call" /\ task["restart"].b = b /\ Ready("restart")
  /\ IF skip[b] \/ ~client[b]
     THEN /\ task' = [task EXCEPT !["restart"] = Advance("restart", "idle")]
          /\ UNCHANGED <<obj, ui>>
     ELSE /\ obj' = [obj EXCEPT ![b] =
                       IF isRunning(@)
                       THEN StartCall(NewLanguageClient(@.path, @.initOpts), "restart")
                       ELSE StartCall(@, "restart")]
          /\ task' = [task EXCEPT !["restart"] =
                        Await("restart", "rs_start", "start",
                              IF isRunning(obj[b]) THEN "wait" ELSE StartResult(obj[b]))]
          /\ ui' = [ui EXCEPT ![b] = "none"]
  /\ overlap' = Called(b)
  /\ UNCHANGED <<shown, skip, envPath, enable, binPath, lsConfig, handler, client, procs,
                 event, resolution, launch, push, status, events, folders, pull, repeat>>

\* restartClient starting a client that is not running only when the backend
\* is enabled, as activate does
restartClient_enabledOnly(b) ==
  /\ task["restart"].pc = "call" /\ task["restart"].b = b /\ Ready("restart")
  /\ IF skip[b] \/ ~client[b] \/ (~isRunning(obj[b]) /\ ~enable)
     THEN /\ task' = [task EXCEPT !["restart"] = Advance("restart", "idle")]
          /\ UNCHANGED <<obj, ui>>
     ELSE IF isRunning(obj[b])
     THEN /\ obj' = [obj EXCEPT ![b] = StopCall(@)]
          /\ task' = [task EXCEPT !["restart"] =
                        Await("restart", "rs_stop", "stop", StopResult(obj[b]))]
          /\ ui' = [ui EXCEPT ![b] = "none"]
     ELSE /\ obj' = [obj EXCEPT ![b] = StartCall(@, "restart")]
          /\ task' = [task EXCEPT !["restart"] =
                        Await("restart", "rs_start", "start", StartResult(obj[b]))]
          /\ ui' = [ui EXCEPT ![b] = "none"]
  /\ overlap' = Called(b)
  /\ UNCHANGED <<shown, skip, envPath, enable, binPath, lsConfig, handler, client, procs,
                 event, resolution, launch, push, status, events, folders, pull, repeat>>

\* the command not awaiting restartClient: the call returns at once and the
\* fan-out goes on while the client stops or starts
restartClient_notAwaited(b) ==
  /\ task["restart"].pc = "call" /\ task["restart"].b = b /\ Ready("restart")
  /\ IF skip[b]
     THEN /\ task' = [task EXCEPT !["restart"] = Advance("restart", "idle")]
          /\ UNCHANGED <<obj, ui>>
     ELSE IF ~client[b]
     THEN /\ ui' = [ui EXCEPT ![b] = "notFound"]
          /\ task' = [task EXCEPT !["restart"] = Advance("restart", "idle")]
          /\ UNCHANGED obj
     ELSE /\ obj' = [obj EXCEPT ![b] =
                       IF isRunning(@) THEN StopCall(@) ELSE StartCall(@, "restart")]
          /\ task' = [task EXCEPT !["restart"] = Advance("restart", "idle")]
          /\ ui' = [ui EXCEPT ![b] = "none"]
  /\ overlap' = Called(b)
  /\ UNCHANGED <<shown, skip, envPath, enable, binPath, lsConfig, handler, client, procs,
                 event, resolution, launch, push, status, events, folders, pull, repeat>>

\* extension.ts: the kill-switch test, and restartClient() up to its await
restartClient(b) ==
  /\ task["restart"].pc = "call" /\ task["restart"].b = b /\ Ready("restart")
  /\ IF skip[b]
     THEN /\ task' = [task EXCEPT !["restart"] = Advance("restart", "idle")]
          /\ UNCHANGED <<obj, ui>>
     ELSE IF ~client[b]
     THEN /\ ui' = [ui EXCEPT ![b] = "notFound"]
          /\ task' = [task EXCEPT !["restart"] = Advance("restart", "idle")]
          /\ UNCHANGED obj
     ELSE IF isRunning(obj[b])
     THEN \* client.restart(): await this.stop()
          /\ obj' = [obj EXCEPT ![b] = StopCall(@)]
          /\ task' = [task EXCEPT !["restart"] =
                        Await("restart", "rs_stop", "stop", StopResult(obj[b]))]
          /\ ui' = [ui EXCEPT ![b] = "none"]
     ELSE /\ obj' = [obj EXCEPT ![b] = StartCall(@, "restart")]
          /\ task' = [task EXCEPT !["restart"] =
                        Await("restart", "rs_start", "start", StartResult(obj[b]))]
          /\ ui' = [ui EXCEPT ![b] = "none"]
  /\ overlap' = Called(b)
  /\ UNCHANGED <<shown, skip, envPath, enable, binPath, lsConfig, handler, client, procs,
                 event, resolution, launch, push, status, events, folders, pull, repeat>>

\* client.restart() after its stop: await this.start(); a failed stop rejects
restartClient_stopped(b) ==
  /\ task["restart"].pc = "rs_stop" /\ task["restart"].b = b /\ Ready("restart")
  /\ IF task["restart"].res = "ok"
     THEN /\ obj' = [obj EXCEPT ![b] = StartCall(@, "restart")]
          /\ task' = [task EXCEPT !["restart"] =
                        Await("restart", "rs_restart", "start", StartResult(obj[b]))]
          /\ UNCHANGED ui
     ELSE /\ restartClient_catch(b)
          /\ UNCHANGED obj
  /\ UNCHANGED <<shown, overlap, skip, envPath, enable, binPath, lsConfig, handler, client, procs,
                 event, resolution, launch, push, status, events, folders, pull, repeat>>

\* restartClient() after the await of client.restart()
restartClient_restarted(b) ==
  /\ task["restart"].pc = "rs_restart" /\ task["restart"].b = b /\ Ready("restart")
  /\ IF task["restart"].res = "ok"
     THEN /\ ui' = [ui EXCEPT ![b] = "restarted"]
          /\ task' = [task EXCEPT !["restart"] = Advance("restart", "idle")]
     ELSE restartClient_catch(b)
  /\ UNCHANGED <<shown, overlap, skip, envPath, enable, binPath, lsConfig, handler, client, obj, procs,
                 event, resolution, launch, push, status, events, folders, pull, repeat>>

\* restartClient() after the await of client.start()
restartClient_started(b) ==
  /\ task["restart"].pc = "rs_start" /\ task["restart"].b = b /\ Ready("restart")
  /\ IF task["restart"].res = "ok"
     THEN /\ task' = [task EXCEPT !["restart"] = Advance("restart", "idle")]
          /\ UNCHANGED ui
     ELSE restartClient_catch(b)
  /\ UNCHANGED <<shown, overlap, skip, envPath, enable, binPath, lsConfig, handler, client, obj, procs,
                 event, resolution, launch, push, status, events, folders, pull, repeat>>

\* ------------------------------------------------------------ toggleClient
\* the ToggleEnable command is invoked: updateEnable(!enable), awaited
toggleEnable ==
  /\ Quiet
  /\ Active
  /\ task["toggle"].pc = "idle"
  /\ events < MaxEvents
  /\ events' = events + 1
  /\ enable' = ~enable
  /\ task' = [task EXCEPT !["toggle"] = [Idle EXCEPT !.pc = "call", !.wait = "io"]]
  /\ UNCHANGED <<shown, overlap, skip, envPath, binPath, lsConfig, handler, client, obj, procs,
                 event, resolution, launch, push, status, ui, folders, pull, repeat>>

\* toggleClient deciding on the session alone: stop if running, start if not
toggleClient_flip(b) ==
  /\ task["toggle"].pc = "call" /\ task["toggle"].b = b /\ Ready("toggle")
  /\ IF skip[b] \/ ~client[b]
     THEN /\ task' = [task EXCEPT !["toggle"] = Advance("toggle", "idle")]
          /\ UNCHANGED obj
     ELSE IF isRunning(obj[b])
     THEN /\ obj' = [obj EXCEPT ![b] = StopCall(@)]
          /\ task' = [task EXCEPT !["toggle"] =
                        Await("toggle", "tg_wait", "stop", StopResult(obj[b]))]
     ELSE /\ obj' = [obj EXCEPT ![b] = StartCall(@, "toggle")]
          /\ task' = [task EXCEPT !["toggle"] =
                        Await("toggle", "tg_wait", "start", StartResult(obj[b]))]
  /\ overlap' = Called(b)
  /\ UNCHANGED <<shown, skip, envPath, enable, binPath, lsConfig, handler, client, procs,
                 event, resolution, launch, push, status, ui, events, folders, pull, repeat>>

\* extension.ts: the kill-switch test, and toggleClient() up to its await
toggleClient(b) ==
  /\ task["toggle"].pc = "call" /\ task["toggle"].b = b /\ Ready("toggle")
  /\ IF skip[b] \/ ~client[b]
     THEN /\ task' = [task EXCEPT !["toggle"] = Advance("toggle", "idle")]
          /\ UNCHANGED obj
     ELSE IF isRunning(obj[b])
     THEN IF ~enable
          THEN /\ obj' = [obj EXCEPT ![b] = StopCall(@)]
               /\ task' = [task EXCEPT !["toggle"] =
                             Await("toggle", "tg_wait", "stop", StopResult(obj[b]))]
          ELSE /\ task' = [task EXCEPT !["toggle"] = Advance("toggle", "idle")]
               /\ UNCHANGED obj
     ELSE IF enable
          THEN /\ obj' = [obj EXCEPT ![b] = StartCall(@, "toggle")]
               /\ task' = [task EXCEPT !["toggle"] =
                             Await("toggle", "tg_wait", "start", StartResult(obj[b]))]
          ELSE /\ task' = [task EXCEPT !["toggle"] = Advance("toggle", "idle")]
               /\ UNCHANGED obj
  /\ overlap' = Called(b)
  /\ UNCHANGED <<shown, skip, envPath, enable, binPath, lsConfig, handler, client, procs,
                 event, resolution, launch, push, status, ui, events, folders, pull, repeat>>

\* toggleClient() after its await: a rejection leaves toggleClient and the command
toggleClient_done(b) ==
  /\ task["toggle"].pc = "tg_wait" /\ task["toggle"].b = b /\ Ready("toggle")
  /\ task' = [task EXCEPT !["toggle"] =
                IF task["toggle"].res = "ok"
                THEN Advance("toggle", "idle") ELSE Fail("toggle", "idle")]
  /\ UNCHANGED <<shown, overlap, skip, envPath, enable, binPath, lsConfig, handler, client, obj, procs,
                 event, resolution, launch, push, status, ui, events, folders, pull, repeat>>


\* ---------------------------------------------------------- onConfigChange
\* ConfigService.effectsWorkspaceConfigChange(event): the event touches a
\* setting of the language-server configuration section
effectsWorkspaceConfigChange(e) == e.kind = "ls"

\* the settings the event changes
ConfigAfter(kind, b, p) ==
  [enable |-> IF kind = "enable" THEN ~enable ELSE enable,
   binPath |-> IF kind = "binPath" THEN [binPath EXCEPT ![b] = p] ELSE binPath,
   lsConfig |-> IF kind = "ls" THEN (lsConfig + 1) % (MaxCfgVersion + 1) ELSE lsConfig]

\* the host reports a configuration change; ConfigService refreshes its view
\* and calls the installed configService.onConfigChange with the event
ConfigChange(kind, b, p) ==
  /\ Quiet
  /\ Active
  /\ task["cfg"].pc = "idle"
  /\ events < MaxEvents
  /\ events' = events + 1
  /\ kind = "binPath" => p # binPath[b]
  /\ kind # "binPath" => (b = Linter /\ p = NoPath)
  /\ enable' = ConfigAfter(kind, b, p).enable
  /\ binPath' = ConfigAfter(kind, b, p).binPath
  /\ lsConfig' = ConfigAfter(kind, b, p).lsConfig
  /\ event' = [kind |-> kind, handler |-> handler,
               running |-> [x \in Backends |-> isRunning(obj[x])],
               sent |-> [x \in Backends |-> 0]]
  /\ task' = [task EXCEPT !["cfg"] =
                [Idle EXCEPT !.pc = "call",
                             !.b = IF handler = Formatter THEN Formatter ELSE Linter]]
  /\ UNCHANGED <<shown, overlap, skip, envPath, handler, client, obj, procs, resolution, launch, push,
                 status, ui, folders, pull, repeat>>

\* the handler's call for backend task["cfg"].b is over: the fan-out of
\* extension.ts goes on to the formatter, a backend's own closure returns
CfgAdvance ==
  IF event.handler = "fanout" THEN Advance("cfg", "idle")
  ELSE [task["cfg"] EXCEPT !.pc = "idle", !.wait = "none", !.res = "ok"]

\* updateStatsBar(context, enable)
updateStatsBar(b) == [status EXCEPT ![b] = IF enable THEN "enabled" ELSE "disabled"]

\* onConfigChange without the isRunning() test
onConfigChange_noRunningTest(b) ==
  /\ task["cfg"].pc = "call" /\ task["cfg"].b = b /\ Ready("cfg")
  /\ IF (event.handler = "fanout" /\ skip[b]) \/ ~client[b]
     THEN /\ task' = [task EXCEPT !["cfg"] = CfgAdvance]
          /\ UNCHANGED <<status, obj, push, event>>
     ELSE /\ status' = updateStatsBar(b)
          /\ obj' = [obj EXCEPT ![b].initOpts = lsConfig]
          /\ IF effectsWorkspaceConfigChange(event)
             THEN /\ push' = [push EXCEPT ![b] =
                                [n |-> 1, state |-> obj[b].state,
                                 handle |-> client[b], settings |-> lsConfig]]
                  /\ event' = [event EXCEPT !.sent[b] = 1]
                  /\ task' = [task EXCEPT !["cfg"] = [@ EXCEPT !.pc = "sent", !.wait = "io"]]
             ELSE /\ task' = [task EXCEPT !["cfg"] = CfgAdvance]
                  /\ UNCHANGED <<push, event>>
  /\ UNCHANGED <<shown, overlap, skip, envPath, enable, binPath, lsConfig, handler, client, procs,
                 resolution, launch, ui, folders, pull, events, repeat>>

\* onConfigChange(context, event, configService) up to its await; under the
\* fan-out handler, the kill-switch test of extension.ts comes first
onConfigChange(b) ==
  /\ task["cfg"].pc = "call" /\ task["cfg"].b = b /\ Ready("cfg")
  /\ IF event.handler = "fanout" /\ skip[b]
     THEN /\ task' = [task EXCEPT !["cfg"] = CfgAdvance]
          /\ UNCHANGED <<status, obj, push, event>>
     ELSE /\ status' = updateStatsBar(b)
          /\ IF ~client[b]
             THEN /\ task' = [task EXCEPT !["cfg"] = CfgAdvance]
                  /\ UNCHANGED <<obj, push, event>>
             ELSE /\ obj' = [obj EXCEPT ![b].initOpts = lsConfig]
                  /\ IF effectsWorkspaceConfigChange(event) /\ isRunning(obj[b])
                     THEN /\ push' = [push EXCEPT ![b] =
                                        [n |-> 1, state |-> obj[b].state,
                                         handle |-> client[b], settings |-> lsConfig]]
                          /\ event' = [event EXCEPT !.sent[b] = 1]
                          /\ task' = [task EXCEPT !["cfg"] =
                                        [@ EXCEPT !.pc = "sent", !.wait = "io"]]
                     ELSE /\ task' = [task EXCEPT !["cfg"] = CfgAdvance]
                          /\ UNCHANGED <<push, event>>
  /\ UNCHANGED <<shown, overlap, skip, envPath, enable, binPath, lsConfig, handler, client, procs,
                 resolution, launch, ui, folders, pull, events, repeat>>

\* onConfigChange(...) after the await of client.sendNotification
onConfigChange_sent(b) ==
  /\ task["cfg"].pc = "sent" /\ task["cfg"].b = b /\ Ready("cfg")
  /\ task' = [task EXCEPT !["cfg"] = CfgAdvance]
  /\ UNCHANGED <<shown, overlap, skip, envPath, enable, binPath, lsConfig, handler, client, obj, procs,
                 event, resolution, launch, push, status, ui, folders, pull, events, repeat>>

\* extension.ts: the onDidChangeWorkspaceFolders handler (one folder added or
\* removed): addWorkspaceConfig / removeWorkspaceConfig, and nothing else
onDidChangeWorkspaceFolders(f) ==
  /\ Quiet
  /\ Active
  /\ task["cfg"].pc = "idle"
  /\ events < MaxEvents
  /\ events' = events + 1
  /\ folders' = IF f \in folders THEN folders \ {f} ELSE folders \cup {f}
  /\ event' = [kind |-> "folders", handler |-> "none",
               running |-> [x \in Backends |-> isRunning(obj[x])],
               sent |-> [x \in Backends |-> 0]]
  /\ UNCHANGED <<shown, overlap, skip, envPath, enable, binPath, lsConfig, handler, client, obj, procs,
                 task, resolution, launch, push, status, ui, pull, repeat>>

Kinds == {"enable", "binPath", "ls"}

Next ==
  \/ ExtActivate
  \/ \E b \in Backends : activate(b)
  \/ \E b \in Backends : activate_resolved(b)
  \/ \E b \in Backends : activate_started(b)
  \/ ExtDeactivate
  \/ \E b \in Backends : deactivate(b)
  \/ \E b \in Backends : deactivate_stopped(b)
  \/ restartCommand
  \/ \E b \in Backends : restartClient(b)
  \/ \E b \in Backends : restartClient_stopped(b)
  \/ \E b \in Backends : restartClient_restarted(b)
  \/ \E b \in Backends : restartClient_started(b)
  \/ toggleEnable
  \/ \E b \in Backends : toggleClient(b)
  \/ \E b \in Backends : toggleClient_done(b)
  \/ \E kind \in Kinds, b \in Backends, p \in CfgPaths : ConfigChange(kind, b, p)
  \/ \E b \in Backends : onConfigChange(b)
  \/ \E b \in Backends : onConfigChange_sent(b)
  \/ \E b \in Backends, ok \in BOOLEAN : StartDone(b, ok)
  \/ \E b \in Backends, ok \in BOOLEAN : StopDone(b, ok)

Spec == Init /\ [][Next]_vars


\* ------------------------------------------- workspace/configuration (pull)
\* items of a request
MaxItems == 2
\* null, as a response entry
Null == [workspace |-> <<>>, options |-> MaxCfgVersion + 1]
\* undefined, as the result of a failed lookup
NoWorkspaceConfig == <<"undefined">>
NoScope == <<>>
Sections == {"oxc_language_server", "other"}
\* scope URIs, as paths: a folder, a document in it, a folder with no config
Scopes == {NoScope, <<"w1">>, <<"w1", "a.ts">>, <<"w2">>}
Items == [section : Sections, scopeUri : Scopes]
Requests == UNION {[1..n -> Items] : n \in 0..MaxItems}

IsPrefix(f, u) == Len(f) <= Len(u) /\ SubSeq(u, 1, Len(f)) = f

\* configService.getWorkspaceConfig(uri): the configuration of the workspace
\* folder that owns the scope
getWorkspaceConfig(uri) ==
  IF \E f \in folders : IsPrefix(f, uri)
  THEN CHOOSE f \in folders : IsPrefix(f, uri)
  ELSE NoWorkspaceConfig

\* WorkspaceConfig.toLanguageServerConfig(): the folder's merged configuration
toLanguageServerConfig(f) == [workspace |-> f, options |-> lsConfig]

\* the middleware dropping the items it does not answer
configuration_dropsUnanswered(items) ==
  LET keep == {i \in 1..Len(items) :
                 /\ items[i].section = "oxc_language_server"
                 /\ items[i].scopeUri # NoScope}
      first == IF keep = {} THEN 0 ELSE CHOOSE i \in keep : \A j \in keep : i <= j
  IN [k \in 1..Cardinality(keep) |->
        LET i == IF k = 1 THEN first ELSE CHOOSE j \in keep : j # first
            wc == getWorkspaceConfig(items[i].scopeUri)
        IN IF wc = NoWorkspaceConfig THEN Null ELSE toLanguageServerConfig(wc)]

\* middleware.workspace.configuration(params): params.items.map(...)
configuration(items) ==
  [i \in 1..Len(items) |->
     IF items[i].section # "oxc_language_server" THEN Null
     ELSE IF items[i].scopeUri = NoScope THEN Null
     ELSE LET wc == getWorkspaceConfig(items[i].scopeUri)
          IN IF wc = NoWorkspaceConfig THEN Null ELSE toLanguageServerConfig(wc)]

\* the running server of backend b asks for configuration
ConfigurationRequest(b, items) ==
  /\ Quiet
  /\ Active
  /\ client[b] /\ isRunning(obj[b])
  /\ pull' = [items |-> items, response |-> configuration(items),
              folders |-> folders, lsConfig |-> lsConfig]
  /\ UNCHANGED <<shown, overlap, skip, envPath, enable, binPath, lsConfig, handler, client, obj, procs,
                 task, event, resolution, launch, push, status, ui, folders, events,
                 repeat>>

\* configuration synchronisation: activation, then configuration changes,
\* workspace-folder changes and configuration requests
PullNext ==
  \/ ExtActivate
  \/ \E b \in Backends : activate(b)
  \/ \E b \in Backends : activate_resolved(b)
  \/ \E b \in Backends : activate_started(b)
  \/ \E b \in Backends, ok \in BOOLEAN : StartDone(b, ok)
  \/ ConfigChange("ls", Linter, NoPath)
  \/ \E b \in Backends : onConfigChange(b)
  \/ \E b \in Backends : onConfigChange_sent(b)
  \/ \E f \in Folders : onDidChangeWorkspaceFolders(f)
  \/ \E b \in Backends, items \in Requests : ConfigurationRequest(b, items)

\* both backends enabled, their binaries found through SERVER_PATH_DEV
PullInit ==
  /\ Init
  /\ skip = [b \in Backends |-> FALSE]
  /\ binPath = [b \in Backends |-> NoPath]
  /\ envPath = "/dev"
  /\ enable

PullSpec == PullInit /\ [][PullNext]_vars

\* ------------------------------------------- window/showMessage (inbound)
\* MessageType of the protocol: Error 1, Warning 2, Info 3, Log 4, Debug 5;
\* the values above 5 are the ones the handler does not know
MaxMessageType == 6
MessageType == [Error |-> 1, Warning |-> 2, Info |-> 3, Log |-> 4, Debug |-> 5]
MessageTypes == 1..MaxMessageType

\* the handler with no default case: an unknown type is dropped
onNotification_noDefault(type) ==
  CASE type = MessageType.Debug   -> [log |-> "debug", alert |-> "none"]
    [] type = MessageType.Log     -> [log |-> "info", alert |-> "none"]
    [] type = MessageType.Info    -> [log |-> "none", alert |-> "information"]
    [] type = MessageType.Warning -> [log |-> "none", alert |-> "warning"]
    [] type = MessageType.Error   -> [log |-> "none", alert |-> "error"]
    [] OTHER                      -> [log |-> "none", alert |-> "none"]

\* the handler with the Debug case falling into the Info case
onNotification_debugShown(type) ==
  CASE type = MessageType.Debug   -> [log |-> "none", alert |-> "information"]
    [] type = MessageType.Log     -> [log |-> "info", alert |-> "none"]
    [] type = MessageType.Info    -> [log |-> "none", alert |-> "information"]
    [] type = MessageType.Warning -> [log |-> "none", alert |-> "warning"]
    [] type = MessageType.Error   -> [log |-> "none", alert |-> "error"]
    [] OTHER                      -> [log |-> "info", alert |-> "none"]

\* client.onNotification(ShowMessageNotification.type, ...): the switch on
\* params.type; log is the outputChannel method called, alert the
\* window.show...Message called
onNotification(type) ==
  CASE type = MessageType.Debug   -> [log |-> "debug", alert |-> "none"]
    [] type = MessageType.Log     -> [log |-> "info", alert |-> "none"]
    [] type = MessageType.Info    -> [log |-> "none", alert |-> "information"]
    [] type = MessageType.Warning -> [log |-> "none", alert |-> "warning"]
    [] type = MessageType.Error   -> [log |-> "none", alert |-> "error"]
    [] OTHER                      -> [log |-> "info", alert |-> "none"]

\* the running server of backend b sends a window/showMessage notification
ShowMessage(b, type) ==
  /\ Quiet
  /\ Active
  /\ client[b] /\ isRunning(obj[b])
  /\ shown' = [shown EXCEPT ![b] =
                 [type |-> type, log |-> onNotification(type).log,
                  alert |-> onNotification(type).alert]]
  /\ UNCHANGED <<overlap, skip, envPath, enable, binPath, lsConfig, handler, client, obj, procs,
                 task, event, resolution, launch, push, status, ui, folders, pull,
                 events, repeat>>

\* activation, then messages from the servers
MessageNext ==
  \/ ExtActivate
  \/ \E b \in Backends : activate(b)
  \/ \E b \in Backends : activate_resolved(b)
  \/ \E b \in Backends : activate_started(b)
  \/ \E b \in Backends, ok \in BOOLEAN : StartDone(b, ok)
  \/ \E b \in Backends, type \in MessageTypes : ShowMessage(b, type)

MessageSpec == Init /\ [][MessageNext]_vars


\* ================================================================== claims
InFlight(t, b) == task[t].pc \notin {"idle", "done"} /\ task[t].b = b

\* C1: for each backend, in every reachable state at most one server
\* subprocess is live, whatever the interleaving of activate, deactivate,
\* restartClient, toggleClient and onConfigChange.
C1_AtMostOneSubprocess == \A b \in Backends : procs[b] <= 1

\* the subprocess relaunched by a restart is live while a deactivation is under way
C1_Witness ==
  \E b \in Backends :
    /\ procs[b] = 1 /\ launch[b].afterStop /\ launch[b].by = "restart"
    /\ task["deact"].pc # "idle"

\* C2: every workspace/didChangeConfiguration notification is sent on a
\* present handle whose client is Running at the moment of the send.
C2_PushOnlyWhileRunning ==
  \A b \in Backends : push[b].n = 1 => (push[b].handle /\ push[b].state = "Running")

\* a notification has just been sent while a restart, toggle or deactivate
\* of the same backend is in flight
C2_Witness ==
  \E b \in Backends :
    /\ push[b].n = 1 /\ task["cfg"].pc = "sent" /\ task["cfg"].b = b
    /\ \E t \in {"restart", "toggle", "deact"} : InFlight(t, b)

\* C3 as claimed: a subprocess started after a stop runs a path resolved for
\* that start, never one resolved before the stop.
C3_FreshResolutionOnRestart ==
  \A b \in Backends : (launch[b].n = 1 /\ launch[b].afterStop) => launch[b].fresh

\* C3: findBinary runs once per backend, in activate; every launch of the
\* subprocess, a launch after a stop included, runs the path resolved then.
C3_PathResolvedAtActivation ==
  \A b \in Backends :
    /\ resolution[b].n <= 1
    /\ launch[b].n = 1 => (resolution[b].n = 1 /\ launch[b].path = resolution[b].path)

\* a subprocess launched after a stop runs a path that a resolution made now
\* would not return
C3_Witness ==
  \E b \in Backends :
    /\ launch[b].n = 1 /\ launch[b].afterStop /\ isRunning(obj[b])
    /\ findBinary(binPath[b], envPath).path # launch[b].path


\* ------------------------------------------------- toggling twice in a row
\* the backends whose toggleClient the last fan-out called: a rejection in the
\* linter's leaves the fan-out before the formatter's
Toggled ==
  IF task["toggle"].res = "err" /\ task["toggle"].b = Linter THEN {Linter} ELSE Backends

\* toggleClient is called for both backends with the enable flag at f, after
\* activation and after the toggle before it has returned
InvokeToggle(f) ==
  /\ Quiet
  /\ task["act"].pc = "done"
  /\ task["toggle"].pc = "idle"
  /\ events < MaxEvents + 1
  /\ events' = events + 1
  /\ enable' = f
  /\ repeat' = IF events >= 1 /\ f = enable THEN Toggled ELSE {}
  /\ task' = [task EXCEPT !["toggle"] = [Idle EXCEPT !.pc = "call"]]
  /\ UNCHANGED <<shown, overlap, skip, envPath, binPath, lsConfig, handler, client, obj, procs,
                 event, resolution, launch, push, status, ui, folders, pull>>

ToggleNext ==
  \/ ExtActivate
  \/ \E b \in Backends : activate(b)
  \/ \E b \in Backends : activate_resolved(b)
  \/ \E b \in Backends : activate_started(b)
  \/ \E f \in BOOLEAN : InvokeToggle(f)
  \/ \E b \in Backends : toggleClient(b)
  \/ \E b \in Backends : toggleClient_done(b)
  \/ \E b \in Backends, ok \in BOOLEAN : StartDone(b, ok)
  \/ \E b \in Backends, ok \in BOOLEAN : StopDone(b, ok)

ToggleSpec == Init /\ [][ToggleNext]_vars

\* the step of task t at position pc for backend b
StepOf(t, pc, b) ==
  /\ task[t].pc = pc /\ task[t].b = b
  /\ task'[t] # task[t]

\* C4: toggleClient on a present session stops it when it is running and the
\* flag is false, starts it when it is not running and the flag is true
\* (client.start(): a stopped or never-started client goes to Starting, a
\* start under way is joined, a client that is stopping or failed to start
\* rejects the call), and changes nothing in the two remaining cases; on an
\* absent session it changes nothing.
C4_ToggleTable ==
  [][\A b \in Backends :
       (StepOf("toggle", "call", b) /\ ~skip[b]) =>
         /\ client' = client /\ procs' = procs
         /\ \A o \in Backends \ {b} : obj'[o] = obj[o]
         /\ ~client[b] => obj' = obj
         /\ (client[b] /\ isRunning(obj[b]) /\ ~enable) =>
              (obj'[b].state = "Stopping" /\ task'["toggle"].wait = "stop")
         /\ (client[b] /\ ~isRunning(obj[b]) /\ enable) =>
              /\ obj[b].state \in {"Initial", "Stopped"} =>
                   (obj'[b].state = "Starting" /\ task'["toggle"].wait = "start")
              /\ obj[b].state = "Starting" =>
                   (obj' = obj /\ task'["toggle"].wait = "start")
              /\ obj[b].state \in {"Stopping", "StartFailed"} =>
                   (obj' = obj /\ task'["toggle"].res = "err")
         /\ (client[b] /\ (isRunning(obj[b]) <=> enable)) =>
              (obj' = obj /\ task'["toggle"] = Advance("toggle", "idle"))]_vars

\* toggleClient has stopped a running session on a false flag, and the other
\* backend's session, running with the flag false, is about to be toggled
C4_Witness ==
  \E b \in Backends :
    /\ task["toggle"].pc = "tg_wait" /\ task["toggle"].b = b
    /\ task["toggle"].wait = "stop" /\ obj[b].state = "Stopping" /\ ~enable
    /\ launch[b].n = 1

\* C5: a toggleClient that repeats the flag of the toggleClient before it
\* changes nothing: the session stays as the first call left it.
C5_ToggleIdempotent ==
  [][\A b \in repeat :
       obj'[b] = obj[b] /\ client'[b] = client[b] /\ procs'[b] = procs[b]]_vars

\* a second toggleClient with the same flag has returned, after the first one
\* started a session
C5_Witness ==
  /\ task["toggle"].pc = "idle" /\ task["toggle"].res = "ok"
  /\ \E b \in repeat : isRunning(obj[b]) /\ obj[b].starter = "toggle"

\* restartClient is at its call of client.start() on a constructed client that
\* was never started
RestartOfNeverStarted(b) ==
  /\ task["restart"].pc = "rs_start" /\ task["restart"].b = b
  /\ task["restart"].wait = "none"
  /\ obj[b].starter = "restart" /\ ~obj[b].stopped

\* C6 as claimed: restartClient on a never-started session ends Running only
\* as activation's start would, that is only if the backend is enabled.
C6_RestartStartsOnlyIfEnabled ==
  \A b \in Backends :
    (RestartOfNeverStarted(b) /\ task["restart"].res = "ok" /\ isRunning(obj[b])) => enable

\* C6: restartClient on a constructed but never-started session calls
\* client.start() whether or not the backend is enabled; when that start
\* succeeds the session is Running and restartClient returns with no message.
C6_RestartStartsRegardless ==
  [][\A b \in Backends :
       /\ (StepOf("restart", "call", b) /\ ~skip[b] /\ client[b]
             /\ obj[b].state = "Initial") =>
            /\ obj'[b].state = "Starting" /\ obj'[b].starter = "restart"
            /\ task'["restart"].wait = "start" /\ ui'[b] = "none"
       /\ (StepOf("restart", "rs_start", b) /\ RestartOfNeverStarted(b)
             /\ task["restart"].res = "ok") =>
            /\ isRunning(obj[b]) /\ ui'[b] = "none"
            /\ task'["restart"] = Advance("restart", "idle")]_vars

\* a restartClient has started a never-started session of a disabled backend
C6_Witness ==
  \E b \in Backends :
    /\ RestartOfNeverStarted(b) /\ task["restart"].res = "ok"
    /\ isRunning(obj[b]) /\ ~enable /\ ui[b] = "none"


\* C7: findBinary returns the configured path when it is set and accessible;
\* when it is unset or inaccessible what it returns is
\* process.env.SERVER_PATH_DEV, the configured path having been accessed at
\* most once and not being what is returned; with neither, it returns no path.
C7_ResolutionFallbackOrder ==
  \A b \in Backends :
    resolution[b].n >= 1 =>
      LET r == resolution[b] IN
        /\ (r.bin # NoPath /\ r.bin \in Accessible) =>
             (r.path = r.bin /\ r.from = "config")
        /\ (r.bin = NoPath \/ r.bin \notin Accessible) =>
             (r.path = envPath /\ r.from = "env")
        /\ (r.bin # NoPath /\ r.bin \notin Accessible) => r.accessed = <<r.bin>>
        /\ Len(r.accessed) <= 1
        /\ ((r.bin = NoPath \/ r.bin \notin Accessible) /\ envPath = NoPath) =>
             r.path = NoPath

\* a resolution fell through from an inaccessible configured path to the
\* development path, and the client was built on it
C7_Witness ==
  \E b \in Backends :
    /\ resolution[b].n = 1 /\ resolution[b].bin = "/bad"
    /\ resolution[b].path = "/dev" /\ client[b] /\ obj[b].path = "/dev"

\* activation is over and deactivation has not begun
ActivationOver == task["act"].pc = "done" /\ task["deact"].pc = "idle"

ResolutionFailed(b) == ~skip[b] /\ resolution[b].n = 1 /\ resolution[b].path = NoPath

\* the activation outcome of backend b as its own inputs decide it
OwnOutcome(b) ==
  IF skip[b]
  THEN resolution[b].n = 0 /\ ~client[b] /\ obj[b] = NoObj /\ procs[b] = 0
  ELSE /\ resolution[b].n = 1
       /\ client[b] <=> (resolution[b].bin \in Accessible \/ envPath # NoPath)
       /\ ~client[b] => (obj[b] = NoObj /\ procs[b] = 0)

\* C8: a backend whose binary resolution fails has no session and no
\* subprocess; and when one backend's resolution fails or its kill-switch is
\* set, the other backend's activation outcome is the one its own inputs decide.
C8_BackendsIndependent ==
  \A b \in Backends :
    /\ ResolutionFailed(b) => (~client[b] /\ obj[b] = NoObj /\ procs[b] = 0)
    /\ \A o \in Backends \ {b} :
         (ActivationOver /\ (skip[o] \/ ResolutionFailed(o))) => OwnOutcome(b)

\* the linter's resolution failed and the formatter was activated and runs
C8_Witness ==
  /\ ActivationOver /\ ResolutionFailed(Linter)
  /\ client[Formatter] /\ isRunning(obj[Formatter]) /\ launch[Formatter].by = "act"


\* C9: the response to a configuration request of N items has N entries, in
\* request order: entry i is null when item i's section is not
\* oxc_language_server or item i has no scope, and otherwise the merged
\* configuration of the workspace folder owning the scope, or null when no
\* folder configuration owns it.
C9_PullCorrespondence ==
  /\ Len(pull.response) = Len(pull.items)
  /\ \A i \in 1..Len(pull.items) :
       LET it == pull.items[i]
           owners == {f \in pull.folders : IsPrefix(f, it.scopeUri)}
       IN IF it.section # "oxc_language_server" \/ it.scopeUri = NoScope
          THEN pull.response[i] = Null
          ELSE IF owners = {}
          THEN pull.response[i] = Null
          ELSE \E f \in owners :
                 pull.response[i] = [workspace |-> f, options |-> pull.lsConfig]

\* a request of two items was answered with a null for the unrecognised
\* section and a folder's configuration for the other, in that order
C9_Witness ==
  /\ Len(pull.items) = 2
  /\ pull.items[1].section = "other" /\ pull.response[1] = Null
  /\ pull.items[2].section = "oxc_language_server"
  /\ pull.items[2].scopeUri = <<"w1", "a.ts">>
  /\ pull.response[2] = [workspace |-> <<"w1">>, options |-> 1]

\* the event is relevant to the backends: it touches the language-server
\* configuration section, or it changes workspace-folder membership
Relevant(e) == e.kind \in {"ls", "folders"}

\* the handling of the last event is over
EventHandled == event.kind # NoEvent.kind /\ task["cfg"].pc = "idle"

\* C10: an event that is not relevant sends no notification; a relevant one
\* (a change of the configuration section, or of workspace-folder membership)
\* sends exactly one notification, carrying the current configuration, to a
\* backend whose session is running, and none to a backend whose session is
\* not running.
C10_PushGating ==
  \A b \in Backends :
    EventHandled =>
      /\ ~Relevant(event) => event.sent[b] = 0
      /\ (Relevant(event) /\ ~skip[b] /\ client[b] /\ event.running[b]
            /\ isRunning(obj[b])
            /\ (event.kind = "ls" => task["cfg"].res = "ok")) =>
           (event.sent[b] = 1 /\ push[b].settings = lsConfig)
      /\ (Relevant(event) /\ ~event.running[b] /\ ~isRunning(obj[b])
            /\ obj[b].state \in {"None", "Initial"}) => event.sent[b] = 0

\* C11 as claimed: a message of type Error reaches the error alert and is
\* also written to the backend's log; a message of type Debug is written to
\* the log and raises no alert.
C11_ErrorAlertedAndLogged ==
  \A b \in Backends :
    /\ shown[b].type = MessageType.Error =>
         (shown[b].alert = "error" /\ shown[b].log # "none")
    /\ shown[b].type = MessageType.Debug =>
         (shown[b].log # "none" /\ shown[b].alert = "none")

\* C11: a message of type Error reaches the error alert and is not written
\* to the backend's log; a message of type Debug is written to the log, at
\* debug level, and raises no alert.
C11_SeverityRouting ==
  \A b \in Backends :
    /\ shown[b].type = MessageType.Error =>
         (shown[b].alert = "error" /\ shown[b].log = "none")
    /\ shown[b].type = MessageType.Debug =>
         (shown[b].log = "debug" /\ shown[b].alert = "none")

\* one server's last message was an Error, the other's a Debug
C11_Witness ==
  /\ shown[Linter].type = MessageType.Error /\ shown[Linter].alert = "error"
  /\ shown[Formatter].type = MessageType.Debug /\ shown[Formatter].log = "debug"

\* the session of backend b is constructed and was never started
NeverStarted(b) == client[b] /\ obj[b].state = "Initial" /\ procs[b] = 0

\* C12: after an activation with the backend disabled and a binary found, the
\* session is constructed and not running; the toggleClient of a ToggleEnable
\* command that sets the flag calls client.start() on it, and when that start
\* succeeds toggleClient returns with the session Running.
C12_DisabledThenToggled ==
  /\ [](\A b \in Backends :
          (task["act"].pc = "done" /\ task["act"].res = "ok" /\ events = 0
             /\ task["deact"].pc = "idle"
             /\ ~enable /\ ~skip[b] /\ resolution[b].path # NoPath) => NeverStarted(b))
  /\ [][\A b \in Backends :
          /\ (StepOf("toggle", "call", b) /\ ~skip[b] /\ NeverStarted(b) /\ enable) =>
               /\ obj'[b].state = "Starting" /\ obj'[b].starter = "toggle"
               /\ task'["toggle"].wait = "start"
          /\ (StepOf("toggle", "tg_wait", b) /\ task["toggle"].res = "ok"
                /\ obj[b].starter = "toggle" /\ ~obj[b].stopped) =>
               /\ isRunning(obj[b]) /\ procs[b] = 1
               /\ task["deact"].pc = "idle" => client[b]
               /\ task'["toggle"] = Advance("toggle", "idle")]_vars

\* the ToggleEnable command has returned, having started the sessions that
\* the activation of a disabled extension had left unstarted
C12_Witness ==
  /\ task["toggle"].pc = "idle" /\ task["toggle"].res = "ok" /\ enable
  /\ \A b \in Backends :
       /\ isRunning(obj[b]) /\ launch[b].by = "toggle" /\ launch[b].fresh
       /\ ~launch[b].afterStop

\* the commands that fan out to the backends
Commands == {"restart", "toggle"}

\* the step of command t that ends the linter's call and begins the formatter's
EntersFormatter(t) ==
  task[t].pc # "idle" /\ task[t].b = Linter /\ task'[t].pc = "call" /\ task'[t].b = Formatter

\* C13: a command's call for the formatter begins only when its call for the
\* linter is over: at the step that begins it, either the linter's call
\* returns without having begun a stop or a start, or the promise it awaited
\* has settled and no start begun by the command is still under way.  A
\* kill-switched backend is skipped: its step changes no session, subprocess
\* or message and hands over to the next backend or ends the command.
C13_SequentialFanOut ==
  [][\A t \in Commands :
       /\ EntersFormatter(t) =>
            /\ task[t].wait \in {"none", "io"}
            /\ obj' = obj
            /\ task[t].pc # "call" => task[t].res \in {"ok", "err"}
            /\ ~(obj[Linter].state = "Starting" /\ obj[Linter].starter = t)
       /\ \A b \in Backends :
            (StepOf(t, "call", b) /\ skip[b]) =>
              /\ obj' = obj /\ client' = client /\ procs' = procs /\ ui' = ui
              /\ task'[t] = Advance(t, "idle")]_vars

\* the RestartServer command, having restarted the linter's session, is
\* restarting the formatter's
C13_Witness ==
  /\ task["restart"].b = Formatter /\ task["restart"].pc = "rs_restart"
  /\ task["restart"].wait = "start"
  /\ ui[Linter] = "restarted" /\ isRunning(obj[Linter]) /\ launch[Linter].by = "restart"
  /\ obj[Formatter].state = "Starting"

\* the step of restartClient for backend b that follows a rejected
\* client.start() or client.restart()
RestartFailureStep(b) ==
  /\ \E pc \in {"rs_stop", "rs_restart", "rs_start"} : StepOf("restart", pc, b)
  /\ task["restart"].res = "err"

\* C14: a rejection of client.start() or client.restart() inside
\* restartClient is caught there: restartClient returns normally, and it
\* leaves the handle present and the session Running or Stopped.
C14_RestartFailureContained ==
  [][\A b \in Backends :
       RestartFailureStep(b) =>
         /\ task'["restart"] = Advance("restart", "idle")
         /\ client'[b]
         /\ obj'[b].state \in {"Running", "Stopped"}]_vars

\* no configuration-change event is being handled
NoEventPending == task["cfg"].pc = "idle"

\* C15: once a configuration-change event has been handled, the
\* initializationOptions stored in every present session are the current
\* configuration, whatever the event and whether or not the session runs; and
\* a subprocess launched after it is initialised with the current
\* configuration.
C15_InitOptionsRefreshed ==
  /\ [](\A b \in Backends :
          (NoEventPending /\ client[b]) => obj[b].initOpts = lsConfig)
  /\ [][\A b \in Backends :
          (NoEventPending /\ client[b] /\ launch'[b] # launch[b]) =>
            launch'[b].opts = lsConfig]_vars

\* the types the handler has a case for
KnownTypes == {MessageType.Error, MessageType.Warning, MessageType.Info,
               MessageType.Log, MessageType.Debug}

\* C16: every message goes to exactly one presentation: Debug to the log at
\* debug level, Log to the log at info level, Info, Warning and Error to the
\* information, warning and error prompt, and a type the handler does not
\* know to the log at info level.
C16_OnePresentation ==
  \A b \in Backends :
    shown[b].type # NoMessage.type =>
      LET m == shown[b] IN
        /\ (m.log = "none") # (m.alert = "none")
        /\ m.type = MessageType.Debug => m.log = "debug"
        /\ m.type = MessageType.Log => m.log = "info"
        /\ m.type = MessageType.Info => m.alert = "information"
        /\ m.type = MessageType.Warning => m.alert = "warning"
        /\ m.type = MessageType.Error => m.alert = "error"
        /\ m.type \notin KnownTypes => m.log = "info"

\* a message of a type the handler does not know was written to the log
C16_Witness ==
  \E b \in Backends :
    /\ shown[b].type = MaxMessageType /\ shown[b].type \notin KnownTypes
    /\ shown[b].log = "info" /\ shown[b].alert = "none"

\* C17: deactivate returns without error and leaves the handle absent and no
\* subprocess live, whether the session it found was running, stopped or never
\* started; on an absent session it changes nothing.
C17_DeactivateLeavesAbsent ==
  [][\A b \in Backends :
       /\ (StepOf("deact", "stopped", b)
             /\ obj[b].state \in {"Running", "Stopped", "Initial"}) =>
            /\ task["deact"].res = "ok"
            /\ task'["deact"] = Advance("deact", "done")
            /\ ~client'[b] /\ procs'[b] = 0
       /\ (StepOf("deact", "call", b) /\ ~client[b]) =>
            /\ obj' = obj /\ client' = client /\ procs' = procs
            /\ task'["deact"] = Advance("deact", "done")]_vars

\* every task has run to its end, deactivation included, and no start or
\* stop of a client is under way
AllTasksCompleted ==
  /\ task["deact"].pc = "done"
  /\ \A t \in TaskIds : task[t].pc \in {"idle", "done"}
  /\ \A b \in Backends : obj[b].state \notin {"Starting", "Stopping"}

\* C18: when restartClient or toggleClient of a backend was called while the
\* backend's deactivate awaited client.stop(), then once every task has
\* completed the backend's handle is absent and it has no live subprocess.
C18_NoOrphanAfterDeactivate ==
  \A b \in overlap : AllTasksCompleted => (~client[b] /\ procs[b] = 0)

\* C19: restartClient, toggleClient and onConfigChange use the handle only
\* while it is present: a notification is sent on a present handle, and the
\* catch clause of restartClient finds the handle present, so that
\* restartClient returns normally, also when deactivate has completed while
\* restartClient was suspended.
C19_NoUseOfAbsentHandle ==
  /\ [](\A b \in Backends : push[b].n = 1 => push[b].handle)
  /\ [][\A b \in Backends :
          RestartFailureStep(b) =>
            (client[b] /\ task'["restart"] # Fail("restart", "idle"))]_vars

\* activation has completed with both backends activated on a resolved binary
BothActivated ==
  /\ task["act"].pc = "done"
  /\ \A b \in Backends : ~skip[b] /\ resolution[b].n = 1 /\ resolution[b].path # NoPath

\* C20: once activation has completed with both backends activated, the
\* function installed as configService.onConfigChange is the fan-out handler
\* of extension.ts, and it is the one that a configuration-change event runs.
C20_FanOutHandlerInstalled ==
  BothActivated =>
    /\ handler = "fanout"
    /\ (event.kind \in Kinds /\ event.handler # "none") => event.handler = "fanout"

====
